---- MODULE Spec2Model ----
(***************************************************************************)
(* Incremental chapter loading of the cenele reader.                       *)
(*                                                                         *)
(* Two versions of the reader component live in the repository: the one in *)
(* src/unnamed/part_000 ("Reader") and the one in src/src/ChapterPage.tsx  *)
(* ("ChapterPage").  Both call fetchChapter of src/unnamed/part_001.  The  *)
(* variable impl says which one is mounted; the operators and actions of   *)
(* ChapterPage.tsx carry the prefix CP_.                                   *)
(*                                                                         *)
(* The browser is a single event loop: a macrotask (a debounced scroll     *)
(* callback, the settling of a network request) runs to completion, then   *)
(* the microtasks it queued run, then the next macrotask.                  *)
(***************************************************************************)
EXTENDS Integers, Sequences, FiniteSets, TLC

\* ------------------------------------------------------------------ bounds
\* Number of entries of the table of contents (props.availableChapters).
TocLen == 5
\* Rendered height of one chapter card, in pixels.
ChapterHeight == 5
\* window.innerHeight, in pixels.
ViewportHeight == 4
\* How many requests the network may fail by an exception.
MaxFailures == 1

\* ------------------------------------------------------- program constants
SCROLL_TRIGGER_PERCENTAGE == 60
\* The window holds 3 chapters: `prevChapters.length >= 3`.
WindowCap == 3

\* -------------------------------------------------------- JavaScript values
\* A value that may be null or undefined is a sequence: <<>> for null or
\* undefined, <<v>> for the value v.
Null == <<>>
Some(v) == <<v>>
IsNull(opt) == opt = <<>>
Get(opt) == opt[1]

\* A number is a record, so that NaN is a number too.
Num(n) == [nan |-> FALSE, n |-> n]
NaN == [nan |-> TRUE, n |-> 0]

\* An attribute read through `el?.getAttribute(name)` is a string: the
\* attribute's text, AttrNull when the element lacks the attribute (null),
\* NoElement when querySelector matched nothing (undefined after ?.).
AttrNull == "<null>"
NoElement == "<no element>"

Min(a, b) == IF a <= b THEN a ELSE b
Max(a, b) == IF a >= b THEN a ELSE b

\* The furthest the document can be scrolled.
MaxScrollY == WindowCap * ChapterHeight

\* props.availableChapters: entry i has the url and the title of chapter i.
availableChapters == [i \in 0 .. TocLen - 1 |-> [id |-> i, value |-> i, text |-> i]]

\* arr[n] of JavaScript: undefined outside the array.
ArrayGet(arr, n) == IF n \in DOMAIN arr THEN Some(arr[n]) ELSE Null

\* Number(v) of an attribute value: undefined gives NaN, null and "" give 0,
\* a decimal numeral its value, any other text NaN.
NumberOf(v) ==
  IF v = NoElement THEN NaN
  ELSE IF v = AttrNull \/ v = "" THEN Num(0)
  ELSE IF \E n \in -2 .. TocLen : ToString(n) = v
       THEN Num(CHOOSE n \in -2 .. TocLen : ToString(n) = v)
       ELSE NaN

\* An attribute value used as a condition.
Truthy(v) == v \notin {NoElement, AttrNull, ""}

\* String.prototype.trim on a sequence of characters.
RECURSIVE TrimLeft(_)
TrimLeft(s) == IF s # <<>> /\ Head(s) = " " THEN TrimLeft(Tail(s)) ELSE s
RECURSIVE TrimRight(_)
TrimRight(s) ==
  IF s # <<>> /\ s[Len(s)] = " " THEN TrimRight(SubSeq(s, 1, Len(s) - 1)) ELSE s
Trim(s) == TrimRight(TrimLeft(s))

\* ------------------------------------------------------------- Page Parser
\* The fallback title, one token standing for its characters.
TitleMissing == <<"Chapter Title Missing">>
ContentMissing == "<p>Error: Chapter content not found.</p>"

\* A fetched document, as far as the parser looks at it:
\*   bookmark    a.wp-manga-action-button[data-action=bookmark] @data-chapter
\*   currentChap #wp-manga-current-chap @data-id
\*   heading     #chapter-heading: Null, or Some(textContent), the text a
\*               sequence of characters
\*   textRight, entryContent, textLeft    innerHTML of the body containers,
\*               NoElement when the selector matches nothing
\* `chapterId === null` compares a number with null and is never true.
extractChapterData(doc, uri) ==
  LET chapterIdStr == doc.bookmark
      chapterId == IF Truthy(chapterIdStr)
                   THEN NumberOf(chapterIdStr)
                   ELSE NumberOf(doc.currentChap)
      title == IF IsNull(doc.heading) THEN TitleMissing ELSE Trim(Get(doc.heading))
      content == IF doc.textRight # NoElement THEN doc.textRight
                 ELSE IF doc.entryContent # NoElement THEN doc.entryContent
                 ELSE IF doc.textLeft # NoElement THEN doc.textLeft
                 ELSE ContentMissing
  IN [data |-> [id |-> chapterId, uri |-> uri, title |-> title, content |-> content],
      warned |-> IF content = ContentMissing THEN {"content"} ELSE {}]

\* ------------------------------------------------- Remote Chapter Fetcher
\* What the network does with one request:
\*   type      "reject" when fetch(url) rejects, else "response"
\*   status    the HTTP status of the response
\*   readable  FALSE when response.text() rejects
\*   doc       the document the body parses to
ResponseOk(response) == response.status \in 200 .. 299

\* The outcome of a call of fetchChapter: settled is "resolved" with value
\* Some(ChapterData) or Null, or "rejected"; href is the url assigned to
\* location.href; logged says whether console.error was called.
Resolved(value, href, logged) ==
  [settled |-> "resolved", value |-> value, href |-> href, logged |-> logged]
Rejected == [settled |-> "rejected", value |-> Null, href |-> Null, logged |-> FALSE]

\* Faulty variant: every response that is not ok raises.
fetchChapter_raisesForStatus(url, title, net) ==
  IF net.type = "reject" \/ ~ResponseOk(net) \/ ~net.readable
  THEN Rejected
  ELSE Resolved(Some(extractChapterData(net.doc, url).data), Null, FALSE)

\* Faulty variant: a rejected fetch is logged and answered with null.
fetchChapter_swallowsReject(url, title, net) ==
  IF net.type = "reject"
  THEN Resolved(Null, Null, TRUE)
  ELSE IF ResponseOk(net)
  THEN IF ~net.readable
       THEN Rejected
       ELSE Resolved(Some(extractChapterData(net.doc, url).data), Null, FALSE)
  ELSE IF net.status = 403
  THEN Resolved(Null, Some(url), TRUE)
  ELSE Resolved(Null, Null, TRUE)

\* Faulty variant: a 403 is handled like a 404, without the redirect.
fetchChapter_noRedirect(url, title, net) ==
  IF net.type = "reject"
  THEN Rejected
  ELSE IF ResponseOk(net)
  THEN IF ~net.readable
       THEN Rejected
       ELSE Resolved(Some(extractChapterData(net.doc, url).data), Null, FALSE)
  ELSE Resolved(Null, Null, TRUE)

fetchChapter(url, title, net) ==
  IF net.type = "reject"
  THEN Rejected
  ELSE IF ResponseOk(net)
  THEN IF ~net.readable
       THEN Rejected
       ELSE Resolved(Some(extractChapterData(net.doc, url).data), Null, FALSE)
  ELSE IF net.status = 404
  THEN Resolved(Null, Null, TRUE)
  ELSE IF net.status = 403
  THEN Resolved(Null, Some(url), TRUE)
  ELSE Resolved(Null, Null, TRUE)

\* ------------------------------------------------------------ environment
Doc(bookmark, currentChap, heading, textRight, entryContent, textLeft) ==
  [bookmark |-> bookmark, currentChap |-> currentChap, heading |-> heading,
   textRight |-> textRight, entryContent |-> entryContent, textLeft |-> textLeft]

\* The page of chapter i with everything the parser looks for.
FullPage(i) ==
  Doc(ToString(i), NoElement, Some(<<" ", ToString(i), " ">>), "body", NoElement, NoElement)
\* A page of the site with none of it.
BarePage == Doc(NoElement, NoElement, Null, NoElement, NoElement, NoElement)

\* The documents the site may serve for the url of chapter i.
Pages(i) == {FullPage(i), BarePage}

Net(type, status, readable, doc) ==
  [type |-> type, status |-> status, readable |-> readable, doc |-> doc]

\* The request fails by an exception: fetch rejects, or the body cannot be read.
Failing(net) == net.type = "reject" \/ (ResponseOk(net) /\ ~net.readable)

\* Everything the network may do with a request for url.
NetworkOutcomes(url) ==
  {Net("reject", 0, FALSE, BarePage), Net("response", 200, FALSE, BarePage)}
  \cup {Net("response", s, TRUE, BarePage) : s \in {403, 404, 500}}
  \cup {Net("response", 200, TRUE, d) : d \in Pages(url)}

\* props.initialChapterIndex: the index of the chapter shown first; -1 when
\* the bootstrap did not find it in the table of contents.
InitialIndices == {-2, -1, 0, TocLen - 1}

\* ------------------------------------------------------------------ state
VARIABLES
  impl,                \* "Reader" (part_000) or "ChapterPage" (ChapterPage.tsx)
  initialChapterIndex, \* props.initialChapterIndex
  chapters,            \* signal chapters: the Window, oldest first
  nextChapterIndex,    \* signal nextChapterIndex / nextChpaterIndex: FetchCursor
  lastChapter,         \* signal lastChapter: ExhaustionFlag
  fetching,            \* signal fetching: InFlightFlag
  scrollAnchorInfo,    \* signal scrollAnchorInfo: Null or Some([id, offset])
  pending,             \* calls of fetchChapter awaiting the network
  microtasks,          \* queued microtasks, each with its captured anchorInfo
  scrollY,             \* window.scrollY
  requests,            \* history: the urls requested, in order
  navigations,         \* history: assignments to location.href
  failures,            \* history: requests failed by an exception
  response,            \* history: what the network did with the latest request
  returned,            \* history: outcome of the latest fetchChapter call
  lastCall,            \* history: the handler that ran last and what it did
  before,              \* history: the reader's state when that handler started
  geometry,            \* a measurement: the ref, its bounding rect, the viewport
  percentage,          \* calculateScrollPercentage of that measurement
  detachedCards        \* uris of chapters whose card another script removed

readerState ==
  <<chapters, nextChapterIndex, lastChapter, fetching, scrollAnchorInfo>>
vars ==
  <<impl, initialChapterIndex, chapters, nextChapterIndex, lastChapter, fetching,
    scrollAnchorInfo, pending, microtasks, scrollY, requests, navigations,
    failures, response, returned, lastCall, before, geometry, percentage,
    detachedCards>>

measurement == <<geometry, percentage>>

Snapshot ==
  [chapters |-> chapters, nextChapterIndex |-> nextChapterIndex,
   lastChapter |-> lastChapter, fetching |-> fetching,
   scrollAnchorInfo |-> scrollAnchorInfo,
   requests |-> Len(requests), pending |-> Len(pending)]

Did(by, what) == [by |-> by, did |-> what]

\* The handlers of a reader run where that reader is mounted.  With impl =
\* "both" the two readers are mounted side by side and share the state.
Runs(reader) == impl \in {reader, "both"}

\* The reader as constructed, shown on the chapter at initialChapterIndex.
Mounted ==
  /\ initialChapterIndex \in InitialIndices
  /\ \E page \in Pages(initialChapterIndex) :
       chapters = <<extractChapterData(page, initialChapterIndex).data>>
  /\ nextChapterIndex = initialChapterIndex + 1
  /\ lastChapter = FALSE
  /\ fetching = FALSE
  /\ scrollAnchorInfo = Null
  /\ pending = <<>>
  /\ microtasks = <<>>
  /\ scrollY = 0
  /\ requests = <<>>
  /\ navigations = 0
  /\ failures = 0
  /\ response = Null
  /\ returned = Null
  /\ lastCall = Did("mount", "mounted")
  /\ before = Snapshot
  /\ geometry = Null
  /\ percentage = Null
  /\ detachedCards = {}

Init ==
  /\ impl \in {"Reader", "ChapterPage"}
  /\ Mounted

\* ------------------------------------------------------------- the document
\* The cards are rendered in window order, one below the other, the k-th
\* (from 1) with id `chapter-${chs[k].id}` and offsetTop (k - 1) * height.
offsetTop(k) == (k - 1) * ChapterHeight

\* The cards in the document: one per chapter of chs, in window order, less
\* those another script took out of the document.
Cards(chs) == SelectSeq(chs, LAMBDA c : c.uri \notin detachedCards)

\* document.getElementById(`chapter-${id}`) with the cards of chs rendered:
\* the first card in document order with that id, Null when there is none.
getElementById(chs, id) ==
  LET cards == Cards(chs)
  IN IF \E k \in 1 .. Len(cards) : cards[k].id = id
     THEN Some(CHOOSE k \in 1 .. Len(cards) :
                 cards[k].id = id /\ \A j \in 1 .. k - 1 : cards[j].id # id)
     ELSE Null

\* A variant of scrollTo that goes to the top whatever it is given.
ScrollTo_toTop(top) == 0

\* window.scrollTo({top}): the browser keeps the offset inside the document.
ScrollTo(top) == Max(0, Min(top, MaxScrollY))

\* currentChapterRef.getBoundingClientRect(): the ref is the content of the
\* card created last, the last one of the window.
\* The rect of an element that is not in the document is all zeros.
BoundingClientRect(chs, y) ==
  IF chs[Len(chs)].uri \in detachedCards
  THEN [top |-> 0, height |-> 0]
  ELSE [top |-> offsetTop(Len(Cards(chs))) - y, height |-> ChapterHeight]

\* ----------------------------------------------------------- Scroll Trigger
\* A percentage is the exact fraction num / den, den > 0.
Pct(num, den) == [num |-> num, den |-> den]
PctGreater(p, n) == p.num > n * p.den

\* Variants of calculateScrollPercentage: one that measures the scrolled part
\* against the viewport instead of the element, one that tests the
\* zero height before anything else.
calculateScrollPercentage_ofViewport(el, rect, windowHeight) ==
  IF IsNull(el) THEN Pct(0, 1)
  ELSE IF rect.top <= -rect.height THEN Pct(100, 1)
  ELSE IF rect.top >= windowHeight THEN Pct(0, 1)
  ELSE LET scrolledPastHeight == Max(0, -rect.top)
       IN IF windowHeight = 0 THEN Pct(0, 1)
          ELSE IF scrolledPastHeight * 100 >= 100 * windowHeight THEN Pct(100, 1)
          ELSE Pct(scrolledPastHeight * 100, windowHeight)

calculateScrollPercentage_zeroHeightFirst(el, rect, windowHeight) ==
  IF IsNull(el) \/ rect.height = 0 THEN Pct(0, 1)
  ELSE IF rect.top <= -rect.height THEN Pct(100, 1)
  ELSE IF rect.top >= windowHeight THEN Pct(0, 1)
  ELSE LET scrolledPastHeight == Max(0, -rect.top)
       IN IF scrolledPastHeight * 100 >= 100 * rect.height THEN Pct(100, 1)
          ELSE Pct(scrolledPastHeight * 100, rect.height)

calculateScrollPercentage(el, rect, windowHeight) ==
  IF IsNull(el) THEN Pct(0, 1)
  ELSE IF rect.top <= -rect.height THEN Pct(100, 1)
  ELSE IF rect.top >= windowHeight THEN Pct(0, 1)
  ELSE LET scrolledPastHeight == Max(0, -rect.top)
           elementHeight == rect.height
       IN IF elementHeight = 0 THEN Pct(0, 1)
          ELSE IF scrolledPastHeight * 100 >= 100 * elementHeight THEN Pct(100, 1)
          ELSE Pct(scrolledPastHeight * 100, elementHeight)

\* --------------------------------------------- Chapter Window Manager (Reader)
\* A variant of handleScroll's guard that does not look at fetching.
ScrollSuppressed_ignoresFetching == lastChapter

\* The guard of handleScroll.
ScrollSuppressed == lastChapter \/ fetching

\* Faulty variants of the first guard: one flag is not looked at.
AlreadyLoading_ignoresFetching == lastChapter
AlreadyLoading_ignoresLastChapter == fetching

\* The first guard of loadNextChapter.
AlreadyLoading == fetching \/ lastChapter

\* A variant of the range guard that only looks below the table.
OutOfRange_onlyNegative(index) == index < 0

\* Faulty variant of the second guard: the index just past the table passes.
OutOfRange_missesEnd(index) ==
  \/ index > TocLen
  \/ index < 0

\* The second guard of loadNextChapter: the cursor is outside the table.
OutOfRange(index) ==
  \/ index = TocLen
  \/ index > TocLen
  \/ index < 0

\* Faulty variant: the new chapter is appended and nothing is removed.
updateChapters_neverEvicts(prevChapters, newChapter) ==
  [chapters |-> Append(prevChapters, newChapter), scrollAnchorInfo |-> Null]

\* Faulty variant: slice(0, -1) for slice(1), the newest chapter is dropped.
updateChapters_dropsNewest(prevChapters, newChapter) ==
  IF Len(prevChapters) >= WindowCap
  THEN [chapters |-> Append(SubSeq(prevChapters, 1, Len(prevChapters) - 1), newChapter),
        scrollAnchorInfo |-> Null]
  ELSE [chapters |-> Append(prevChapters, newChapter), scrollAnchorInfo |-> Null]

\* A variant of updateChapters that stores an anchor also when the card of
\* the anchor chapter is not found.
updateChapters_anchorsUnfound(prevChapters, newChapter) ==
  IF Len(prevChapters) >= WindowCap
  THEN [chapters |-> Append(Tail(prevChapters), newChapter),
        scrollAnchorInfo |-> Some([id |-> prevChapters[2].id, offset |-> scrollY])]
  ELSE [chapters |-> Append(prevChapters, newChapter), scrollAnchorInfo |-> Null]

\* A variant of updateChapters that stores an anchor on every mutation.
updateChapters_anchorsAlways(prevChapters, newChapter) ==
  IF Len(prevChapters) >= WindowCap
  THEN [chapters |-> Append(Tail(prevChapters), newChapter),
        scrollAnchorInfo |->
          Some([id |-> prevChapters[2].id, offset |-> scrollY - offsetTop(2)])]
  ELSE [chapters |-> Append(prevChapters, newChapter),
        scrollAnchorInfo |-> Some([id |-> prevChapters[1].id, offset |-> 0])]

\* A variant of updateChapters that evicts the second chapter, not the first.
updateChapters_evictsSecond(prevChapters, newChapter) ==
  IF Len(prevChapters) >= WindowCap
  THEN [chapters |-> <<prevChapters[1]>> \o Tail(Tail(prevChapters))
                       \o <<newChapter>>,
        scrollAnchorInfo |-> Null]
  ELSE [chapters |-> Append(prevChapters, newChapter), scrollAnchorInfo |-> Null]

\* A variant of updateChapters that starts evicting one chapter early.
updateChapters_evictsAtTwo(prevChapters, newChapter) ==
  IF Len(prevChapters) >= WindowCap - 1
  THEN [chapters |-> Append(Tail(prevChapters), newChapter),
        scrollAnchorInfo |-> Null]
  ELSE [chapters |-> Append(prevChapters, newChapter), scrollAnchorInfo |-> Null]

\* updateChapters(newChapter): the updater passed to setChapters, run on
\* prevChapters with the cards of prevChapters rendered; the new window and
\* the value left in scrollAnchorInfo.
updateChapters(prevChapters, newChapter) ==
  IF Len(prevChapters) >= WindowCap
  THEN LET anchorChapter == prevChapters[2]
           anchorElement == getElementById(prevChapters, anchorChapter.id)
       IN [chapters |-> Append(Tail(prevChapters), newChapter),
           scrollAnchorInfo |->
             IF ~IsNull(anchorElement)
             THEN Some([id |-> anchorChapter.id,
                        offset |-> scrollY - offsetTop(Get(anchorElement))])
             ELSE Null]
  ELSE [chapters |-> Append(prevChapters, newChapter), scrollAnchorInfo |-> Null]

\* restoreScrollPosition, the effect on chapters: with an anchor present it
\* queues a microtask that keeps the anchor it read.
restoreScrollPosition(anchorInfo, queue) ==
  IF IsNull(anchorInfo) THEN queue ELSE Append(queue, Get(anchorInfo))

\* loadNextChapter up to its await: the guards, and the request.  Reading
\* chapterToFetch.value of an undefined entry raises a TypeError outside the
\* try block, after setFetching(true).
loadNextChapter(by) ==
  /\ UNCHANGED <<detachedCards, measurement, impl, initialChapterIndex,
                 chapters, nextChapterIndex,
                 scrollAnchorInfo, microtasks, navigations, failures, response, returned>>
  /\ IF AlreadyLoading
     THEN /\ lastCall' = Did(by, "guarded")
          /\ UNCHANGED <<lastChapter, fetching, pending, requests>>
     ELSE IF OutOfRange(nextChapterIndex)
     THEN /\ lastChapter' = TRUE
          /\ lastCall' = Did(by, "exhausted")
          /\ UNCHANGED <<fetching, pending, requests>>
     ELSE LET chapterToFetch == ArrayGet(availableChapters, nextChapterIndex)
          IN /\ fetching' = TRUE
             /\ UNCHANGED lastChapter
             /\ IF IsNull(chapterToFetch)
                THEN /\ lastCall' = Did(by, "escaped")
                     /\ UNCHANGED <<pending, requests>>
                ELSE /\ pending' = Append(pending, [url |-> Get(chapterToFetch).value,
                                                    title |-> Get(chapterToFetch).text])
                     /\ requests' = Append(requests, Get(chapterToFetch).value)
                     /\ lastCall' = Did(by, "issued")

\* advance(): loadNextChapter called on its own.
advance ==
  /\ Runs("Reader")
  /\ microtasks = <<>>
  /\ before' = Snapshot
  /\ loadNextChapter("advance")
  /\ UNCHANGED scrollY

\* The debounced scroll callback, after the user scrolled to offset y.
handleScroll(y) ==
  /\ Runs("Reader")
  /\ microtasks = <<>>
  /\ before' = Snapshot
  /\ scrollY' = y
  /\ IF ScrollSuppressed
     THEN /\ lastCall' = Did("scroll", "returned")
          /\ UNCHANGED <<detachedCards, measurement, impl, initialChapterIndex,
                         readerState, pending, microtasks,
                         requests, navigations, failures, response, returned>>
     ELSE LET scrollPercentage ==
                calculateScrollPercentage(Some(Len(chapters)),
                                          BoundingClientRect(chapters, y),
                                          ViewportHeight)
          IN IF PctGreater(scrollPercentage, SCROLL_TRIGGER_PERCENTAGE)
             THEN loadNextChapter("scroll")
             ELSE /\ lastCall' = Did("scroll", "below")
                  /\ UNCHANGED <<detachedCards, measurement, impl, initialChapterIndex,
                                 readerState, pending,
                                 microtasks, requests, navigations, failures,
                                 response, returned>>

\* A variant in which a null result does not set lastChapter.
resumeLoadNextChapter_forgetsExhaustion(out) ==
  /\ IF out.settled = "resolved"
     THEN IF ~IsNull(out.value)
          THEN LET updated == updateChapters(chapters, Get(out.value))
               IN /\ chapters' = updated.chapters
                  /\ scrollAnchorInfo' = updated.scrollAnchorInfo
                  /\ microtasks' =
                       restoreScrollPosition(updated.scrollAnchorInfo, microtasks)
                  /\ nextChapterIndex' = nextChapterIndex + 1
                  /\ lastCall' = Did("fetch", "record")
                  /\ UNCHANGED lastChapter
          ELSE /\ UNCHANGED lastChapter
               /\ scrollAnchorInfo' = Null
               /\ lastCall' = Did("fetch", "null")
               /\ UNCHANGED <<chapters, nextChapterIndex, microtasks>>
     ELSE /\ lastCall' = Did("fetch", "caught")
          /\ UNCHANGED <<chapters, nextChapterIndex, lastChapter,
                         scrollAnchorInfo, microtasks>>
  /\ fetching' = FALSE

\* Faulty variant: the cursor is advanced in the finally block, on every outcome.
resumeLoadNextChapter_advancesInFinally(out) ==
  /\ IF out.settled = "resolved"
     THEN IF ~IsNull(out.value)
          THEN LET updated == updateChapters(chapters, Get(out.value))
               IN /\ chapters' = updated.chapters
                  /\ scrollAnchorInfo' = updated.scrollAnchorInfo
                  /\ microtasks' =
                       restoreScrollPosition(updated.scrollAnchorInfo, microtasks)
                  /\ lastCall' = Did("fetch", "record")
                  /\ UNCHANGED lastChapter
          ELSE /\ lastChapter' = TRUE
               /\ scrollAnchorInfo' = Null
               /\ lastCall' = Did("fetch", "null")
               /\ UNCHANGED <<chapters, microtasks>>
     ELSE /\ lastCall' = Did("fetch", "caught")
          /\ UNCHANGED <<chapters, lastChapter, scrollAnchorInfo, microtasks>>
  /\ nextChapterIndex' = nextChapterIndex + 1
  /\ fetching' = FALSE

\* loadNextChapter from its await to its end, fetchChapter having settled
\* with out: the try block, the catch and the finally.
resumeLoadNextChapter(out) ==
  /\ IF out.settled = "resolved"
     THEN IF ~IsNull(out.value)
          THEN LET updated == updateChapters(chapters, Get(out.value))
               IN /\ chapters' = updated.chapters
                  /\ scrollAnchorInfo' = updated.scrollAnchorInfo
                  /\ microtasks' =
                       restoreScrollPosition(updated.scrollAnchorInfo, microtasks)
                  /\ nextChapterIndex' = nextChapterIndex + 1
                  /\ lastCall' = Did("fetch", "record")
                  /\ UNCHANGED lastChapter
          ELSE /\ lastChapter' = TRUE
               /\ scrollAnchorInfo' = Null
               /\ lastCall' = Did("fetch", "null")
               /\ UNCHANGED <<chapters, nextChapterIndex, microtasks>>
     ELSE /\ lastCall' = Did("fetch", "caught")
          /\ UNCHANGED <<chapters, nextChapterIndex, lastChapter,
                         scrollAnchorInfo, microtasks>>
  /\ fetching' = FALSE

\* The network settles the k-th pending request with net: fetchChapter
\* settles and loadNextChapter resumes.
fetchSettled(k, net) ==
  /\ Runs("Reader")
  /\ microtasks = <<>>
  /\ k \in 1 .. Len(pending)
  /\ Failing(net) => failures < MaxFailures
  /\ before' = Snapshot
  /\ LET out == fetchChapter(pending[k].url, pending[k].title, net)
     IN /\ pending' = SubSeq(pending, 1, k - 1) \o SubSeq(pending, k + 1, Len(pending))
        /\ response' = Some(net)
        /\ returned' = Some(out)
        /\ failures' = IF Failing(net) THEN failures + 1 ELSE failures
        /\ navigations' = IF IsNull(out.href) THEN navigations ELSE navigations + 1
        /\ resumeLoadNextChapter(out)
  /\ UNCHANGED <<detachedCards, measurement, impl, initialChapterIndex,
                 scrollY, requests>>

\* A variant of the microtask that leaves the anchor where it is.
restoreMicrotask_keepsAnchor ==
  /\ Runs("Reader")
  /\ microtasks # <<>>
  /\ before' = Snapshot
  /\ LET anchorInfo == Head(microtasks)
         anchorElement == getElementById(chapters, anchorInfo.id)
     IN IF ~IsNull(anchorElement)
        THEN /\ scrollY' = ScrollTo(offsetTop(Get(anchorElement)) + anchorInfo.offset)
             /\ lastCall' = Did("microtask", "restored")
        ELSE /\ lastCall' = Did("microtask", "missing")
             /\ UNCHANGED scrollY
  /\ UNCHANGED scrollAnchorInfo
  /\ microtasks' = Tail(microtasks)
  /\ UNCHANGED <<detachedCards, measurement, impl, initialChapterIndex,
                 chapters, nextChapterIndex, lastChapter,
                 fetching, pending, requests, navigations, failures, response, returned>>

\* ------------------------------------------------------ Scroll Anchor Restorer
\* The microtask queued by restoreScrollPosition, run once the cards of the
\* new window are rendered.
restoreMicrotask ==
  /\ Runs("Reader")
  /\ microtasks # <<>>
  /\ before' = Snapshot
  /\ LET anchorInfo == Head(microtasks)
         anchorElement == getElementById(chapters, anchorInfo.id)
     IN IF ~IsNull(anchorElement)
        THEN /\ scrollY' = ScrollTo(offsetTop(Get(anchorElement)) + anchorInfo.offset)
             /\ lastCall' = Did("microtask", "restored")
        ELSE /\ lastCall' = Did("microtask", "missing")
             /\ UNCHANGED scrollY
  /\ scrollAnchorInfo' = Null
  /\ microtasks' = Tail(microtasks)
  /\ UNCHANGED <<detachedCards, measurement, impl, initialChapterIndex,
                 chapters, nextChapterIndex, lastChapter,
                 fetching, pending, requests, navigations, failures, response, returned>>

\* A variant of the updater of ChapterPage.tsx that never stores an anchor.
CP_updateChapters_neverAnchors(prevChapters, newChapter) ==
  IF Len(prevChapters) >= 3
  THEN [chapters |-> Append(Tail(prevChapters), newChapter),
        scrollAnchorInfo |-> Null]
  ELSE [chapters |-> Append(prevChapters, newChapter), scrollAnchorInfo |-> Null]

\* ----------------------------------------------------- ChapterPage.tsx
\* The updater passed to setChapters inside loadNextChapter.
CP_updateChapters(prevChapters, newChapter) ==
  IF Len(prevChapters) >= 3
  THEN LET anchorChapter == prevChapters[2]
           anchorId == anchorChapter.id
           anchorElement == getElementById(prevChapters, anchorId)
       IN [chapters |-> Append(Tail(prevChapters), newChapter),
           scrollAnchorInfo |->
             IF ~IsNull(anchorElement)
             THEN LET scrollOffset == scrollY - offsetTop(Get(anchorElement))
                  IN Some([id |-> anchorId, offset |-> scrollOffset])
             ELSE Null]
  ELSE [chapters |-> Append(prevChapters, newChapter), scrollAnchorInfo |-> Null]

\* loadNextChapter up to its await.  There is no check of the cursor: past
\* the table chapterToFetch is undefined and reading chapterToFetch.value
\* raises a TypeError, which rejects the promise of loadNextChapter.
CP_loadNextChapter(by) ==
  /\ UNCHANGED <<detachedCards, measurement, impl, initialChapterIndex,
                 chapters, nextChapterIndex, lastChapter,
                 scrollAnchorInfo, microtasks, navigations, failures, response, returned>>
  /\ IF fetching \/ lastChapter
     THEN /\ lastCall' = Did(by, "guarded")
          /\ UNCHANGED <<fetching, pending, requests>>
     ELSE /\ fetching' = TRUE
          /\ LET chapterToFetch == ArrayGet(availableChapters, nextChapterIndex)
             IN IF IsNull(chapterToFetch)
                THEN /\ lastCall' = Did(by, "escaped")
                     /\ UNCHANGED <<pending, requests>>
                ELSE /\ pending' = Append(pending, [url |-> Get(chapterToFetch).value,
                                                    title |-> Get(chapterToFetch).text])
                     /\ requests' = Append(requests, Get(chapterToFetch).value)
                     /\ lastCall' = Did(by, "issued")

CP_advance ==
  /\ Runs("ChapterPage")
  /\ microtasks = <<>>
  /\ before' = Snapshot
  /\ CP_loadNextChapter("advance")
  /\ UNCHANGED scrollY

CP_handleScroll(y) ==
  /\ Runs("ChapterPage")
  /\ microtasks = <<>>
  /\ before' = Snapshot
  /\ scrollY' = y
  /\ IF lastChapter
     THEN /\ lastCall' = Did("scroll", "returned")
          /\ UNCHANGED <<detachedCards, measurement, impl, initialChapterIndex,
                         readerState, pending, microtasks,
                         requests, navigations, failures, response, returned>>
     ELSE LET scrollPercentage ==
                calculateScrollPercentage(Some(Len(chapters)),
                                          BoundingClientRect(chapters, y),
                                          ViewportHeight)
          IN IF PctGreater(scrollPercentage, 60) /\ ~fetching
             THEN CP_loadNextChapter("scroll")
             ELSE /\ lastCall' = Did("scroll", IF fetching THEN "returned" ELSE "below")
                  /\ UNCHANGED <<detachedCards, measurement, impl, initialChapterIndex,
                                 readerState, pending, microtasks, requests,
                                 navigations, failures, response, returned>>

\* loadNextChapter from its await to its end.  Nothing catches a rejection
\* of fetchChapter: the rest of the function, setFetching(false) included,
\* is skipped.
CP_fetchSettled(k, net) ==
  /\ Runs("ChapterPage")
  /\ microtasks = <<>>
  /\ k \in 1 .. Len(pending)
  /\ Failing(net) => failures < MaxFailures
  /\ before' = Snapshot
  /\ LET out == fetchChapter(pending[k].url, pending[k].title, net)
     IN /\ pending' = SubSeq(pending, 1, k - 1) \o SubSeq(pending, k + 1, Len(pending))
        /\ response' = Some(net)
        /\ returned' = Some(out)
        /\ failures' = IF Failing(net) THEN failures + 1 ELSE failures
        /\ navigations' = IF IsNull(out.href) THEN navigations ELSE navigations + 1
        /\ IF out.settled = "resolved"
           THEN /\ IF ~IsNull(out.value)
                   THEN LET updated == CP_updateChapters(chapters, Get(out.value))
                        IN /\ chapters' = updated.chapters
                           /\ scrollAnchorInfo' = updated.scrollAnchorInfo
                           /\ microtasks' =
                                restoreScrollPosition(updated.scrollAnchorInfo, microtasks)
                           /\ nextChapterIndex' = nextChapterIndex + 1
                           /\ lastCall' = Did("fetch", "record")
                           /\ UNCHANGED lastChapter
                   ELSE /\ lastChapter' = TRUE
                        /\ scrollAnchorInfo' = Null
                        /\ lastCall' = Did("fetch", "null")
                        /\ UNCHANGED <<chapters, nextChapterIndex, microtasks>>
                /\ fetching' = FALSE
           ELSE /\ lastCall' = Did("fetch", "escaped")
                /\ UNCHANGED <<chapters, nextChapterIndex, lastChapter, fetching,
                               scrollAnchorInfo, microtasks>>
  /\ UNCHANGED <<detachedCards, measurement, impl, initialChapterIndex,
                 scrollY, requests>>

\* The microtask queued by the effect on chapters.
CP_restoreMicrotask ==
  /\ Runs("ChapterPage")
  /\ microtasks # <<>>
  /\ before' = Snapshot
  /\ LET anchorInfo == Head(microtasks)
         anchorElement == getElementById(chapters, anchorInfo.id)
     IN IF ~IsNull(anchorElement)
        THEN LET newScrollY == offsetTop(Get(anchorElement)) + anchorInfo.offset
             IN /\ scrollY' = ScrollTo(newScrollY)
                /\ lastCall' = Did("microtask", "restored")
        ELSE /\ lastCall' = Did("microtask", "missing")
             /\ UNCHANGED scrollY
  /\ scrollAnchorInfo' = Null
  /\ microtasks' = Tail(microtasks)
  /\ UNCHANGED <<detachedCards, measurement, impl, initialChapterIndex,
                 chapters, nextChapterIndex, lastChapter,
                 fetching, pending, requests, navigations, failures, response, returned>>

\* ------------------------------------------------------------ specification
ScrollOffsets == 0 .. MaxScrollY

Next ==
  \/ advance
  \/ \E y \in ScrollOffsets : handleScroll(y)
  \/ \E k \in 1 .. Len(pending) : \E net \in NetworkOutcomes(pending[k].url) :
       fetchSettled(k, net)
  \/ restoreMicrotask
  \/ CP_advance
  \/ \E y \in ScrollOffsets : CP_handleScroll(y)
  \/ \E k \in 1 .. Len(pending) : \E net \in NetworkOutcomes(pending[k].url) :
       CP_fetchSettled(k, net)
  \/ CP_restoreMicrotask

Spec == Init /\ [][Next]_vars

\* ------------------------------------------- a page that loses cards
\* The reader shares the page with the site's own scripts and with other
\* userscripts.  Here one of them takes the card of Window[1] out of the
\* document, once, while the window is full; the reader's handlers are the
\* same.
removeCard ==
  /\ microtasks = <<>>
  /\ Len(chapters) = WindowCap
  /\ detachedCards = {}
  /\ detachedCards' = detachedCards \cup {chapters[2].uri}
  /\ before' = Snapshot
  /\ lastCall' = Did("script", "removed")
  /\ UNCHANGED <<measurement, impl, initialChapterIndex, readerState, pending,
                 microtasks, scrollY, requests, navigations, failures,
                 response, returned>>

DetachNext ==
  \/ Next
  \/ removeCard

\* The reader is mounted on the first chapter of the table.
DetachInit == Init /\ initialChapterIndex = 0

DetachSpec == DetachInit /\ [][DetachNext]_vars

\* ------------------------------------------- a reader that keeps reading
\* The Reader of part_000.  Every request is answered, with a page or with
\* an error status, and the user keeps scrolling past the trigger: the
\* debounced callback runs again and again at an offset where the percentage
\* is above the threshold.  The event loop runs a settled fetch's
\* continuation and a queued microtask.
Completing(url) == {net \in NetworkOutcomes(url) : ~Failing(net)}

settles ==
  \E k \in 1 .. Len(pending) : \E net \in Completing(pending[k].url) :
    fetchSettled(k, net)

scrollsPastTrigger ==
  \E y \in ScrollOffsets :
    /\ PctGreater(calculateScrollPercentage(Some(Len(chapters)),
                                            BoundingClientRect(chapters, y),
                                            ViewportHeight),
                  SCROLL_TRIGGER_PERCENTAGE)
    /\ handleScroll(y)

LiveNext ==
  \/ advance
  \/ \E y \in ScrollOffsets : handleScroll(y)
  \/ settles
  \/ restoreMicrotask

LiveInit == Init /\ impl = "Reader"

LiveSpec ==
  /\ LiveInit
  /\ [][LiveNext]_vars
  /\ WF_vars(settles)
  /\ WF_vars(restoreMicrotask)
  /\ SF_vars(scrollsPastTrigger)

\* --------------------------------------------- the two readers side by side
\* Both readers mounted on the same chapter and given the same events: the
\* same calls of loadNextChapter, the same scroll offsets, the same answers
\* of the network, none of them an exception, while the cursor is inside
\* the table.  A step is one event handled by both, and it exists only
\* where both handlers leave the same state and the same requests behind.
InTable == nextChapterIndex \in 0 .. TocLen - 1

bothAdvance == advance /\ CP_advance
bothScroll(y) == handleScroll(y) /\ CP_handleScroll(y)
bothSettle(k, net) == fetchSettled(k, net) /\ CP_fetchSettled(k, net)
bothRestore == restoreMicrotask /\ CP_restoreMicrotask

PairInit == impl = "both" /\ Mounted

PairNext ==
  \/ InTable /\ bothAdvance
  \/ InTable /\ \E y \in ScrollOffsets : bothScroll(y)
  \/ \E k \in 1 .. Len(pending) : \E net \in Completing(pending[k].url) :
       bothSettle(k, net)
  \/ bothRestore

PairSpec == PairInit /\ [][PairNext]_vars

\* ------------------------------------------------ a site of uneven pages
\* The reader from the first chapter of the table, without scrolling, on a
\* site whose pages miss the things the parser looks for one at a time.
\* Each page below differs from FullPage(i) in what its name says.
FallbackPage(i) ==
  Doc(NoElement, ToString(i), Some(<<ToString(i)>>), NoElement, "body", NoElement)
NoAttributePage(i) ==
  Doc(AttrNull, NoElement, Some(<<ToString(i)>>), NoElement, NoElement, "body")
BareNavPage(i) ==
  Doc(NoElement, AttrNull, Some(<<ToString(i)>>), "body", NoElement, NoElement)
GarbledPage(i) ==
  Doc("x", ToString(i), Some(<<ToString(i)>>), "body", NoElement, NoElement)
NoTitlePage(i) ==
  Doc(ToString(i), NoElement, Null, "body", NoElement, NoElement)
NoBodyPage(i) ==
  Doc(ToString(i), NoElement, Some(<<ToString(i)>>), NoElement, NoElement, NoElement)

SitePages(i) ==
  {FullPage(i), BarePage, FallbackPage(i), NoAttributePage(i), BareNavPage(i),
   GarbledPage(i), NoTitlePage(i), NoBodyPage(i)}

SiteOutcomes(url) ==
  {Net("response", 404, TRUE, BarePage)}
  \cup {Net("response", 200, TRUE, d) : d \in SitePages(url)}

SiteInit == Init /\ initialChapterIndex = 0

SiteNext ==
  \/ advance
  \/ \E k \in 1 .. Len(pending) : \E net \in SiteOutcomes(pending[k].url) :
       fetchSettled(k, net)
  \/ restoreMicrotask
  \/ CP_advance
  \/ \E k \in 1 .. Len(pending) : \E net \in SiteOutcomes(pending[k].url) :
       CP_fetchSettled(k, net)
  \/ CP_restoreMicrotask

SiteSpec == SiteInit /\ [][SiteNext]_vars

\* ---------------------------------------------- the scroll trigger's geometry
\* calculateScrollPercentage on its own: the handler reads the content ref,
\* its bounding rect and the viewport height, then computes the percentage.
\* The geometries are those a layout can produce: any top, a height of zero
\* or more, a viewport of at least one pixel, and a ref that may be unset.
MaxElementHeight == 4
MaxViewportHeight == 3

Tops == -(MaxElementHeight + 1) .. (MaxViewportHeight + 1)
Geometries ==
  [el : {Null, Some("contentRef")},
   rect : [top : Tops, height : 0 .. MaxElementHeight],
   windowHeight : 1 .. MaxViewportHeight]

ScrollInit ==
  /\ impl \in {"Reader", "ChapterPage"}
  /\ initialChapterIndex = 0
  /\ chapters = <<extractChapterData(FullPage(0), 0).data>>
  /\ nextChapterIndex = 1
  /\ lastChapter = FALSE
  /\ fetching = FALSE
  /\ scrollAnchorInfo = Null
  /\ pending = <<>>
  /\ microtasks = <<>>
  /\ scrollY = 0
  /\ requests = <<>>
  /\ navigations = 0
  /\ failures = 0
  /\ response = Null
  /\ returned = Null
  /\ lastCall = Did("mount", "mounted")
  /\ before = Snapshot
  /\ \E g \in Geometries : geometry = Some(g)
  /\ percentage = Null
  /\ detachedCards = {}

measure(g) ==
  /\ ~IsNull(percentage)
  /\ geometry' = Some(g)
  /\ percentage' = Null
  /\ UNCHANGED <<detachedCards, impl, initialChapterIndex, readerState, pending,
                 microtasks, scrollY, requests, navigations, failures,
                 response, returned, lastCall, before>>

evaluate ==
  /\ ~IsNull(geometry) /\ IsNull(percentage)
  /\ percentage' = Some(calculateScrollPercentage(Get(geometry).el,
                           Get(geometry).rect, Get(geometry).windowHeight))
  /\ UNCHANGED <<detachedCards, geometry, impl, initialChapterIndex,
                 readerState, pending, microtasks, scrollY, requests,
                 navigations, failures, response, returned, lastCall, before>>

ScrollNext ==
  \/ \E g \in Geometries : measure(g)
  \/ evaluate

ScrollSpec == ScrollInit /\ [][ScrollNext]_vars

\* ------------------------------------------------------------------ claims
\* What the handler that ran last was, read off the history variables.
\* A call of fetchChapter settled, and with what.
FetchReturned == lastCall.by = "fetch" /\ ~IsNull(returned)
ReturnedRecord ==
  FetchReturned /\ Get(returned).settled = "resolved" /\ ~IsNull(Get(returned).value)
ReturnedNull ==
  FetchReturned /\ Get(returned).settled = "resolved" /\ IsNull(Get(returned).value)
ReturnedThrow == FetchReturned /\ Get(returned).settled = "rejected"
\* loadNextChapter was entered, directly or from a scroll callback.
LoadCalled ==
  \/ lastCall.by = "advance"
  \/ lastCall.by = "scroll" /\ lastCall.did \notin {"returned", "below"}
WindowUnchanged ==
  chapters = before.chapters /\ nextChapterIndex = before.nextChapterIndex
NoRequestIssued == Len(requests) = before.requests

\* C1: the window always holds at least one and at most three chapters.
C1_WindowLength == 1 <= Len(chapters) /\ Len(chapters) <= 3

\* C1 witness: a record arrived while the window held three chapters, and
\* it still holds three.
C1_Witness == ReturnedRecord /\ Len(before.chapters) = 3 /\ Len(chapters) = 3

\* C2: at most one request is outstanding; while one is, the flag is set and
\* no handler issues another request.
C2_SingleFetch ==
  /\ Len(pending) <= 1
  /\ pending # <<>> => fetching
  /\ before.pending > 0 => (NoRequestIssued /\ (LoadCalled => WindowUnchanged))

\* C2 witness: advance() was called again while the request was outstanding.
C2_Witness ==
  /\ lastCall = Did("advance", "guarded")
  /\ before.pending = 1 /\ Len(pending) = 1 /\ Len(requests) = 1 /\ fetching

\* C3: once lastChapter is true it stays true, and no handler changes the
\* window or the cursor or issues a request.
C3_ExhaustionSticky ==
  before.lastChapter => (lastChapter /\ WindowUnchanged /\ NoRequestIssued)

\* C3 witness: advance() was called with lastChapter set and the cursor
\* inside the table (a request had returned null).
C3_Witness ==
  /\ before.lastChapter /\ lastCall = Did("advance", "guarded")
  /\ nextChapterIndex \in 0 .. TocLen - 1

\* C4: a record arriving while the window holds three chapters or more
\* gives the old window without its first element, then the record.
C4_Eviction ==
  (ReturnedRecord /\ Len(before.chapters) >= 3) =>
    chapters = SubSeq(before.chapters, 2, Len(before.chapters))
                 \o <<Get(Get(returned).value)>>

\* C4 witness: an eviction whose three remaining chapters are all different.
C4_Witness ==
  /\ ReturnedRecord /\ Len(before.chapters) >= 3
  /\ before.chapters[1] # before.chapters[2]
  /\ before.chapters[2] # before.chapters[3]

\* C5: a handler leaves the cursor where it was, except that a call whose
\* fetch returned a record adds exactly one.
C5_CursorMonotone ==
  nextChapterIndex = before.nextChapterIndex + (IF ReturnedRecord THEN 1 ELSE 0)

\* C5 witness: the cursor has been advanced twice and the latest fetch
\* raised an exception.
C5_Witness ==
  ReturnedThrow /\ nextChapterIndex >= initialChapterIndex + 3

\* C6: in both readers, once no request is outstanding the in-flight flag
\* is clear: every call that set it has cleared it.
C6_InFlightCleared == (pending = <<>>) => ~fetching

\* C7: in the Reader, loadNextChapter entered with both flags clear and the
\* cursor outside the table sets lastChapter and does nothing else.
C7_CursorOutOfRange ==
  (/\ impl = "Reader" /\ LoadCalled
   /\ ~before.fetching /\ ~before.lastChapter
   /\ (before.nextChapterIndex < 0 \/ before.nextChapterIndex >= TocLen)) =>
    (lastChapter /\ NoRequestIssued /\ ~fetching /\ WindowUnchanged)

\* C7 witness: the guard fired after the whole table had been fetched.
C7_Witness ==
  /\ impl = "Reader" /\ LoadCalled /\ ~before.lastChapter /\ lastChapter
  /\ nextChapterIndex = TocLen /\ Len(requests) >= 3

\* C7, the other side of the range: the guard fired on a negative cursor.
C7_WitnessNegative ==
  /\ impl = "Reader" /\ LoadCalled /\ ~before.lastChapter /\ lastChapter
  /\ nextChapterIndex < 0

\* C8: a response with a status outside 2xx makes fetchChapter return null,
\* and the call sets lastChapter, leaves scrollAnchorInfo null and leaves
\* the window and the cursor as they were.
C8_NullResult ==
  (/\ lastCall.by = "fetch" /\ ~IsNull(response)
   /\ Get(response).type = "response" /\ Get(response).status \notin 200 .. 299) =>
    (ReturnedNull /\ lastChapter /\ IsNull(scrollAnchorInfo) /\ WindowUnchanged)

\* C8 witness: a 500 arrived with three chapters in the window.
C8_Witness ==
  /\ lastCall.by = "fetch" /\ ~IsNull(response)
  /\ Get(response).type = "response" /\ Get(response).status = 500
  /\ Len(chapters) = 3

\* C9: fetchChapter returns null, and does not raise, for every status
\* outside 2xx and for a request that fails at the network level.
C9_FetcherNeverThrows ==
  (/\ lastCall.by = "fetch" /\ ~IsNull(response)
   /\ \/ Get(response).type = "reject"
      \/ Get(response).status \notin 200 .. 299) =>
    ReturnedNull

\* The request that settled last failed by an exception (the network failed,
\* or the body could not be read), or with a status outside 2xx.
FailedByException ==
  lastCall.by = "fetch" /\ ~IsNull(response) /\ Failing(Get(response))
FailedByStatus ==
  /\ lastCall.by = "fetch" /\ ~IsNull(response)
  /\ Get(response).type = "response" /\ Get(response).status \notin 200 .. 299
\* A failure that is neither a 403 nor a 404.
TransientFailure ==
  \/ FailedByException
  \/ FailedByStatus /\ Get(response).status \notin {403, 404}
\* The step is a scroll callback that finds the percentage above 60.
QualifyingScroll ==
  /\ lastCall'.by = "scroll"
  /\ PctGreater(calculateScrollPercentage(Some(Len(chapters)),
                                          BoundingClientRect(chapters, scrollY'),
                                          ViewportHeight), 60)
RequestsSameLocatorAgain ==
  /\ requests # <<>>
  /\ requests' = Append(requests, requests[Len(requests)])

\* C10 as stated: in the Reader every transient failure leaves the cursor
\* unchanged and the in-flight flag clear, and the next qualifying scroll
\* requests the same locator again.
C10_TransientRetry ==
  [][(impl = "Reader" /\ TransientFailure) =>
       /\ nextChapterIndex = before.nextChapterIndex
       /\ ~fetching
       /\ QualifyingScroll => RequestsSameLocatorAgain]_vars

\* C10 amended: in the Reader a failure by exception leaves the cursor and
\* lastChapter unchanged and the in-flight flag clear, and the next
\* qualifying scroll requests the same locator again; a failure by status
\* leaves the cursor unchanged and the flag clear too, but sets lastChapter,
\* and the next qualifying scroll requests nothing.
C10_RetryAfterException ==
  [][impl = "Reader" =>
       /\ FailedByException =>
            /\ nextChapterIndex = before.nextChapterIndex
            /\ ~fetching
            /\ lastChapter = before.lastChapter
            /\ QualifyingScroll => (RequestsSameLocatorAgain /\ fetching')
       /\ FailedByStatus =>
            /\ nextChapterIndex = before.nextChapterIndex
            /\ ~fetching
            /\ lastChapter
            /\ QualifyingScroll => requests' = requests]_vars

\* C10 witness: after a failure by exception a scroll requested the same
\* locator a second time.
C10_Witness ==
  /\ impl = "Reader" /\ lastCall = Did("scroll", "issued") /\ failures >= 1
  /\ Len(requests) >= 2 /\ requests[Len(requests)] = requests[Len(requests) - 1]

\* C11: in the Reader every transient failure (a status that is neither 2xx
\* nor 403 nor 404, a network error, a body that cannot be read) leaves the
\* state a 404 leaves: window and cursor unchanged, in-flight flag clear,
\* lastChapter set, scrollAnchorInfo null; and no exception escapes.
C11_TransientLikeNotFound ==
  (impl = "Reader" /\ TransientFailure) =>
    /\ WindowUnchanged
    /\ ~fetching
    /\ lastChapter
    /\ IsNull(scrollAnchorInfo)
    /\ lastCall.did # "escaped"

\* The request that settled last was answered with a 403.
Answered403 ==
  /\ ~IsNull(response)
  /\ Get(response).type = "response" /\ Get(response).status = 403

\* C12: on a 403 fetchChapter returns null and does not raise, location.href
\* is assigned the url of the locator, once, and the call sets lastChapter,
\* clears the in-flight flag and leaves window and cursor unchanged; no
\* other outcome assigns location.href.
C12_AccessDenied ==
  /\ navigations = (IF Answered403 THEN 1 ELSE 0)
  /\ (lastCall.by = "fetch" /\ Answered403) =>
       /\ ReturnedNull
       /\ Get(returned).href = Some(requests[Len(requests)])
       /\ lastChapter /\ ~fetching /\ WindowUnchanged

\* C12 witness: a 403 arrived after two chapters had been appended.
C12_Witness ==
  lastCall.by = "fetch" /\ Answered403 /\ Len(chapters) = 3 /\ navigations = 1


\* ---- the scroll percentage
Measured ==
  ~IsNull(geometry) /\ ~IsNull(percentage) /\ ~IsNull(Get(geometry).el)

PctLessEq(p, q) == p.num * q.den <= q.num * p.den

\* C13: for an element at top with a height of zero or more, the percentage
\* lies in [0,100], is 100 when top <= -height, is 0 when top >= the viewport
\* height, is min(100, 100 * max(0, -top) / height) in between, and does not
\* increase when top increases with height and viewport fixed.
C13_ScrollPercentage ==
  Measured =>
    LET g == Get(geometry)
        p == Get(percentage)
        top == g.rect.top
        height == g.rect.height
    IN /\ p.den > 0 /\ 0 <= p.num /\ p.num <= 100 * p.den
       /\ (top <= -height) => (p.num = 100 * p.den)
       /\ (top >= g.windowHeight) => (p.num = 0)
       /\ (top > -height /\ top < g.windowHeight /\ height > 0) =>
            p.num * height = Min(100 * height, 100 * Max(0, -top)) * p.den
       /\ \A t \in Tops :
            t >= top =>
              PctLessEq(calculateScrollPercentage(g.el,
                          [top |-> t, height |-> height], g.windowHeight), p)

C13_Witness ==
  /\ Measured
  /\ Get(geometry).rect.top < 0
  /\ PctGreater(Get(percentage), SCROLL_TRIGGER_PERCENTAGE)
  /\ Get(percentage).num < 100 * Get(percentage).den


\* C18 as worded: with an active element of height 0 the percentage is 0 for
\* every top and every viewport height.
C18_ZeroHeightIsZero ==
  (Measured /\ Get(geometry).rect.height = 0) => Get(percentage).num = 0

\* C18: with an active element of height 0 the percentage is 0 when top > 0
\* and 100 when top <= 0, for every viewport height: top <= -height is
\* tested before the zero height is.
C18_DegenerateGeometry ==
  (Measured /\ Get(geometry).rect.height = 0) =>
    IF Get(geometry).rect.top <= 0
    THEN Get(percentage).num = 100 * Get(percentage).den
    ELSE Get(percentage).num = 0

C18_Witness ==
  /\ Measured
  /\ Get(geometry).rect.height = 0
  /\ Get(geometry).rect.top = 1
  /\ Get(geometry).windowHeight > 1
  /\ Get(percentage).num = 0


\* ---- the firing policy
ScrollEvaluated == lastCall.by = "scroll"
ComputedPercentage ==
  calculateScrollPercentage(Some(Len(before.chapters)),
                            BoundingClientRect(before.chapters, scrollY),
                            ViewportHeight)
AdvanceInvoked == lastCall.did \notin {"returned", "below"}

\* C14: a scroll evaluation calls loadNextChapter exactly when the percentage
\* is above 60 and neither fetching nor lastChapter is set; otherwise it
\* leaves window, cursor, both flags and the anchor as they were and issues
\* no request.
C14_FiringPolicy ==
  ScrollEvaluated =>
    /\ AdvanceInvoked <=>
         /\ PctGreater(ComputedPercentage, SCROLL_TRIGGER_PERCENTAGE)
         /\ ~before.fetching
         /\ ~before.lastChapter
    /\ ~AdvanceInvoked =>
         /\ WindowUnchanged
         /\ fetching = before.fetching
         /\ lastChapter = before.lastChapter
         /\ scrollAnchorInfo = before.scrollAnchorInfo
         /\ NoRequestIssued
         /\ Len(pending) = before.pending

\* C14 witness: a scroll past 60% of the third chapter issued a request.
C14_Witness ==
  /\ lastCall = Did("scroll", "issued")
  /\ Len(before.chapters) = 3
  /\ Len(requests) = before.requests + 1

\* A scroll past 60% while a fetch was in flight did nothing.
C14_WitnessIdle ==
  /\ ScrollEvaluated /\ ~AdvanceInvoked
  /\ before.fetching
  /\ PctGreater(ComputedPercentage, SCROLL_TRIGGER_PERCENTAGE)


\* ---- anchor restoration
Restored == lastCall = Did("microtask", "restored")
AppliedAnchor == Get(before.scrollAnchorInfo)
AnchorTopNow == offsetTop(Get(getElementById(chapters, AppliedAnchor.id)))

\* C15 as worded: after a restoration that found the anchor's element the
\* scroll offset is elementTop + pixelOffset, so the distance scrollY -
\* anchorTop is the recorded one.
C15_PositionKept ==
  Restored => scrollY - AnchorTopNow = AppliedAnchor.offset

\* C15: after a restoration that found the anchor's element the scroll
\* offset is elementTop + pixelOffset whenever that target is not negative,
\* and then scrollY - anchorTop is the recorded distance; a negative target
\* (the reader was above the anchor) leaves the offset at 0.
C15_AnchorRestoration ==
  Restored =>
    /\ ~IsNull(before.scrollAnchorInfo)
    /\ scrollY = Max(0, AnchorTopNow + AppliedAnchor.offset)
    /\ (AnchorTopNow + AppliedAnchor.offset >= 0) =>
         scrollY - AnchorTopNow = AppliedAnchor.offset

\* C15 witness: the anchor moved up by one card and the reader stays the
\* same positive distance below its top.
C15_Witness ==
  /\ Restored
  /\ AppliedAnchor.offset > 0
  /\ AnchorTopNow = 0
  /\ scrollY = AppliedAnchor.offset


\* ---- the anchor's life
AnchorStored == ~IsNull(scrollAnchorInfo)

\* C16: the anchor is single-use.  After each restoration attempt it is
\* null; a stored anchor exists only between the window mutation that
\* recorded it and that mutation's own microtask, which is queued with this
\* very anchor and is the only step that can come next, and that step
\* clears it; so no anchor outlives its mutation.
C16_AnchorSingleUse ==
  /\ [](lastCall.by = "microtask" => ~AnchorStored)
  /\ [](AnchorStored =>
          /\ lastCall = Did("fetch", "record")
          /\ Len(before.chapters) = WindowCap
          /\ chapters = Append(Tail(before.chapters), chapters[Len(chapters)])
          /\ microtasks = <<Get(scrollAnchorInfo)>>)
  /\ [](microtasks # <<>> => AnchorStored)
  /\ [][AnchorStored =>
          /\ lastCall'.by = "microtask"
          /\ scrollAnchorInfo' = Null
          /\ microtasks' = <<>>
          /\ chapters' = chapters]_vars

\* C16 witness: a restoration has just run for an anchor recorded by the
\* mutation before it, and the anchor is gone.
C16_Witness ==
  /\ lastCall = Did("microtask", "restored")
  /\ ~IsNull(before.scrollAnchorInfo)
  /\ ~AnchorStored
  /\ microtasks = <<>>


\* ---- growth of the window
RecordAppended == lastCall = Did("fetch", "record")
Uris(chs) == [k \in 1 .. Len(chs) |-> chs[k].uri]

\* C17: a record that arrives while the window holds one or two chapters is
\* appended, nothing is removed and the anchor stays null; a chapter is
\* removed only by a record that arrives while the window holds three.
\* Starting at index 0 the windows are [c0], [c0,c1], [c0,c1,c2], [c1,c2,c3],
\* the last with anchor c1.
C17_GrowthWithoutEviction ==
  /\ (RecordAppended /\ Len(before.chapters) < WindowCap) =>
       /\ Len(chapters) = Len(before.chapters) + 1
       /\ SubSeq(chapters, 1, Len(before.chapters)) = before.chapters
       /\ IsNull(scrollAnchorInfo)
       /\ microtasks = <<>>
  /\ (chapters[1] # before.chapters[1]) =>
       /\ RecordAppended
       /\ Len(before.chapters) = WindowCap
       /\ SubSeq(chapters, 1, WindowCap - 1) = Tail(before.chapters)
  /\ initialChapterIndex = 0 =>
       /\ nextChapterIndex = 1 => Uris(chapters) = <<0>>
       /\ nextChapterIndex = 2 => Uris(chapters) = <<0, 1>>
       /\ nextChapterIndex = 3 => Uris(chapters) = <<0, 1, 2>>
       /\ nextChapterIndex = 4 => Uris(chapters) = <<1, 2, 3>>
       /\ (nextChapterIndex = 4 /\ RecordAppended) =>
            /\ ~IsNull(scrollAnchorInfo)
            /\ Get(scrollAnchorInfo).id = chapters[1].id
            /\ Get(scrollAnchorInfo).id = before.chapters[2].id

\* C17 witness: the third record has just been appended to a window of two.
C17_Witness ==
  /\ RecordAppended
  /\ initialChapterIndex = 0
  /\ Len(before.chapters) = 2
  /\ Uris(chapters) = <<0, 1, 2>>
  /\ IsNull(scrollAnchorInfo)


\* ---- the anchor's target
\* C19: a stored anchor names the pre-mutation Window[1], and its offset is
\* the distance of the scroll offset from the top of that record's own
\* card, whatever the ids of the chapters in the window are.
C19_AnchorTarget ==
  (RecordAppended /\ AnchorStored) =>
    /\ Get(scrollAnchorInfo).id = before.chapters[2].id
    /\ chapters[1] = before.chapters[2]
    /\ Get(scrollAnchorInfo).offset = scrollY - offsetTop(2)


\* ---- an anchor card that is not there
\* The lookup made by the evicting mutation found no card: every chapter of
\* the old window with the id of Window[1] had lost its card.
AnchorCardMissing ==
  /\ RecordAppended
  /\ Len(before.chapters) = WindowCap
  /\ \A k \in 1 .. WindowCap :
       before.chapters[k].id = before.chapters[2].id =>
         before.chapters[k].uri \in detachedCards

\* C20: when the window is full and the card of Window[1] is not found, the
\* anchor is null, the oldest chapter is still dropped and the new one
\* appended, the cursor still goes up by one, no restoration is queued and
\* the next step is not one that writes the scroll offset.
C20_MissingAnchorElement ==
  /\ [](AnchorCardMissing =>
          /\ IsNull(scrollAnchorInfo)
          /\ Len(chapters) = WindowCap
          /\ SubSeq(chapters, 1, WindowCap - 1) = Tail(before.chapters)
          /\ chapters[WindowCap].uri = before.nextChapterIndex
          /\ nextChapterIndex = before.nextChapterIndex + 1
          /\ microtasks = <<>>)
  /\ [][AnchorCardMissing => lastCall'.by # "microtask"]_vars

\* C20 witness: a record arrived at a full window whose second card was
\* gone, and the window moved on without an anchor.
C20_Witness ==
  /\ AnchorCardMissing
  /\ before.chapters[2].uri \in detachedCards
  /\ chapters[1] = before.chapters[2]
  /\ IsNull(scrollAnchorInfo)


\* ---- who writes the scroll offset
Evicted == RecordAppended /\ Len(before.chapters) = WindowCap

\* C21: the restorer writes the scroll offset only in the microtask of a
\* mutation that stored an anchor.  Nothing is queued or written at mount;
\* the offset changes only by the user's scrolling or by that microtask; and
\* after an append-only mutation, a null result, an exception or a call of
\* loadNextChapter that its guards turn away, no microtask is queued.
C21_RestorerFrame ==
  /\ [](lastCall.by = "mount" => (microtasks = <<>> /\ scrollY = 0))
  /\ []((lastCall.by \in {"fetch", "advance", "scroll"} /\ ~Evicted) =>
          microtasks = <<>>)
  /\ [][scrollY' # scrollY =>
          \/ lastCall'.by = "scroll"
          \/ /\ lastCall'.by = "microtask"
             /\ Evicted /\ AnchorStored]_vars
  /\ [][lastCall'.by \in {"fetch", "advance"} => scrollY' = scrollY]_vars

\* C21 witness: the microtask of an eviction in ChapterPage.tsx has put the
\* scroll offset at the recorded distance below the anchor.
C21_Witness ==
  /\ impl = "ChapterPage"
  /\ Restored
  /\ scrollY > 0
  /\ scrollY = AppliedAnchor.offset


\* ---- the parser
IsNumeric(v) == \E n \in -2 .. TocLen : ToString(n) = v
NumericValue(v) == Num(CHOOSE n \in -2 .. TocLen : ToString(n) = v)
ParsedPage == Get(response).doc
ParsedRecord == Get(Get(returned).value)

\* C22: the id of a returned record is the number in the bookmark button's
\* data-chapter, otherwise the number in the current-chapter element's
\* data-id; when neither holds a number the id is the sentinel NaN and a
\* diagnostic about the id has been logged.
C22_IdentifierExtraction ==
  ReturnedRecord =>
    /\ IsNumeric(ParsedPage.bookmark) =>
         ParsedRecord.id = NumericValue(ParsedPage.bookmark)
    /\ (~IsNumeric(ParsedPage.bookmark) /\ IsNumeric(ParsedPage.currentChap)) =>
         ParsedRecord.id = NumericValue(ParsedPage.currentChap)
    /\ (~IsNumeric(ParsedPage.bookmark) /\ ~IsNumeric(ParsedPage.currentChap)) =>
         /\ ParsedRecord.id = NaN
         /\ "id" \in extractChapterData(ParsedPage, ParsedRecord.uri).warned


\* What the page lacks.
LacksIdentifier ==
  ~IsNumeric(ParsedPage.bookmark) /\ ~IsNumeric(ParsedPage.currentChap)
LacksTitle == IsNull(ParsedPage.heading)
LacksBody ==
  /\ ParsedPage.textRight = NoElement
  /\ ParsedPage.entryContent = NoElement
  /\ ParsedPage.textLeft = NoElement
InsertedAsUsual ==
  /\ chapters[Len(chapters)] = ParsedRecord
  /\ Len(chapters) = Min(WindowCap, Len(before.chapters) + 1)
  /\ nextChapterIndex = before.nextChapterIndex + 1
  /\ lastChapter = before.lastChapter /\ ~lastChapter
  /\ ~fetching
  /\ lastCall.did = "record"

\* C23: a 2xx page that lacks the identifier, the title or every body
\* container still yields a record, with the sentinel id NaN, the title
\* "Chapter Title Missing" or the placeholder body, and with the requested
\* url as its uri; the record is inserted and the cursor goes up by one as
\* for a full page, and lastChapter is not set.
C23_PartialExtraction ==
  (ReturnedRecord /\ (LacksIdentifier \/ LacksTitle \/ LacksBody)) =>
    /\ LacksIdentifier => ParsedRecord.id = NaN
    /\ LacksTitle => ParsedRecord.title = TitleMissing
    /\ LacksBody => ParsedRecord.content = ContentMissing
    /\ ParsedRecord.uri = requests[Len(requests)]
    /\ InsertedAsUsual


\* ---- the window and the table of contents
\* C24: the window is a run of consecutive entries of the table that ends
\* just before the cursor: its k-th chapter (from 1) is the record of the
\* entry at nextChapterIndex - Len(chapters) + k - 1, the seed counting as
\* entry initialChapterIndex.  So no chapter is there twice, and the first
\* entry of the window never moves back: what was evicted does not return.
C24_WindowContiguous ==
  /\ [](\A k \in 1 .. Len(chapters) :
          chapters[k].uri = nextChapterIndex - Len(chapters) + k - 1)
  /\ [](chapters[Len(chapters)].uri = nextChapterIndex - 1)
  /\ [](\A j, k \in 1 .. Len(chapters) :
          chapters[j].uri = chapters[k].uri => j = k)
  /\ [](chapters[1].uri >= initialChapterIndex)
  /\ [][chapters'[1].uri >= chapters[1].uri]_vars

\* C24 witness: after two evictions the window holds entries 2, 3 and 4.
C24_Witness ==
  /\ initialChapterIndex = 0
  /\ nextChapterIndex = TocLen
  /\ Len(chapters) = WindowCap
  /\ chapters[1].uri = TocLen - WindowCap
  /\ chapters[WindowCap].uri = TocLen - 1


\* ---- requests
Issues == Len(requests') = Len(requests) + 1
Requested == {requests[j] : j \in 1 .. Len(requests)}

\* C25: every request is for an entry of the table, and an entry is
\* requested again only right after its request failed by an exception:
\* never after a record or a null came back for it.
C25_RequestOnce ==
  /\ [](\A j \in 1 .. Len(requests) : requests[j] \in 0 .. TocLen - 1)
  /\ [](\A j \in 1 .. Len(requests) - 1 : requests[j] <= requests[j + 1])
  /\ [][Issues =>
          LET index == requests'[Len(requests')]
          IN index \in Requested =>
               /\ requests[Len(requests)] = index
               /\ pending = <<>>
               /\ ~IsNull(returned)
               /\ Get(returned).settled = "rejected"
               /\ nextChapterIndex = index]_vars

\* C25 witness: the same entry has been requested twice, the first request
\* having failed by an exception.
C25_Witness ==
  /\ Len(requests) = 2
  /\ requests[1] = requests[2]
  /\ failures = 1
  /\ pending # <<>>


\* ---- the end of prefetching
SuccessfulFetches == nextChapterIndex - initialChapterIndex - 1

\* C26: with every request answered by a record or by null and scrolls past
\* the trigger recurring, the Reader's lastChapter becomes true; on the way
\* it takes in at most TocLen - initialChapterIndex - 1 records; and once
\* lastChapter is true, fetching is false and window, cursor and both flags
\* stay as they are.
C26_PrefetchTerminates ==
  /\ (impl = "Reader") ~> lastChapter
  /\ [](impl = "Reader" =>
          /\ SuccessfulFetches >= 0
          /\ nextChapterIndex <= TocLen
          /\ lastChapter => ~fetching)
  /\ [][(impl = "Reader" /\ lastChapter) =>
          /\ chapters' = chapters
          /\ nextChapterIndex' = nextChapterIndex
          /\ lastChapter' /\ ~fetching'
          /\ requests' = requests]_vars

\* C26 witness: the whole table was taken in, TocLen - 1 records after the
\* seed at index 0, and the next scroll past the trigger ended prefetching.
C26_Witness ==
  /\ impl = "Reader" /\ initialChapterIndex = 0
  /\ lastChapter /\ ~fetching
  /\ SuccessfulFetches = TocLen - 1
  /\ lastCall = Did("scroll", "exhausted")


\* ---- the two readers
\* C27: on the common path the reader of ChapterPage.tsx and the Reader of
\* part_000 agree.  In every state the two have reached together, whatever
\* event one of them can handle (a call of loadNextChapter or a scroll with
\* the cursor inside the table, an answer to a pending request that is a
\* record or null, a queued microtask) both handle, and both leave the same
\* window, cursor, flags, anchor, requests and scroll offset.
C27_ReadersAgree ==
  /\ (InTable /\ (ENABLED advance \/ ENABLED CP_advance)) => ENABLED bothAdvance
  /\ InTable =>
       \A y \in ScrollOffsets :
         (ENABLED handleScroll(y) \/ ENABLED CP_handleScroll(y)) =>
           ENABLED bothScroll(y)
  /\ \A k \in 1 .. Len(pending) : \A net \in Completing(pending[k].url) :
       (ENABLED fetchSettled(k, net) \/ ENABLED CP_fetchSettled(k, net)) =>
         ENABLED bothSettle(k, net)
  /\ (ENABLED restoreMicrotask \/ ENABLED CP_restoreMicrotask) =>
       ENABLED bothRestore

\* C27 witness: side by side the two readers evicted a chapter, stored the
\* same anchor and restored the same scroll offset.
C27_Witness ==
  /\ impl = "both"
  /\ Restored
  /\ nextChapterIndex = 4
  /\ Len(requests) >= 3
  /\ scrollY > 0

====
